---- MODULE Spec2Model ----
(***************************************************************************)
(* Model of laximo_cross_updater.py: ExcelProcessor.process_file driving   *)
(* LaximoAPI.find_oem / find_replacements over the rows of a sheet, with   *)
(* periodic and final saves.                                               *)
(*                                                                         *)
(* Python str values are sequences of one-character strings; a cell or an  *)
(* XML attribute value is a record [t, s, n]: None, a str or an int.       *)
(***************************************************************************)
EXTENDS Integers, Sequences, FiniteSets, TLC

\* ------------------------------------------------------------------ bounds
\* largest sheet.max_row drawn (row 1 is the header)
MaxRow == 3
\* SAVE_INTERVAL is drawn from 1..MaxInterval
MaxInterval == 2
\* longest list of <detail> elements a FindOEM response carries
MaxDetails == 2
\* longest list of <row> elements a FindReplacements response carries
MaxRepl == 2

\* ------------------------------------------------------------ Python values
\* the characters in use, in code point order
Chars == <<" ", ",", ".", "/", "1", "2", "3", "7", "A", "B", "C", "D", "N",
           "P", "X", "_", "a", "d", "e", "m", "p", "t", "w", "x">>

Ord(c) == CHOOSE i \in 1..Len(Chars) : Chars[i] = c

None == [t |-> "none", s |-> <<>>, n |-> 0]
StrVal(s) == [t |-> "str", s |-> s, n |-> 0]
IntVal(n) == [t |-> "int", s |-> <<>>, n |-> n]

\* bool(v): None, "" and 0 are false
Truthy(v) ==
    CASE v.t = "none" -> FALSE
      [] v.t = "str" -> v.s # <<>>
      [] v.t = "int" -> v.n # 0

\* v or ""
OrEmpty(v) == IF Truthy(v) THEN v ELSE StrVal(<<>>)

Digit(d) == <<"0", "1", "2", "3", "4", "5", "6", "7", "8", "9">>[d + 1]

RECURSIVE Decimal(_)
Decimal(n) == IF n < 10 THEN <<Digit(n)>> ELSE Decimal(n \div 10) \o <<Digit(n % 10)>>

\* str(v) of a cell value that is a str or a non-negative int
PyStr(v) == IF v.t = "str" THEN v.s ELSE Decimal(v.n)

IsSpace(c) == c = " "

RECURSIVE rstrip(_)
rstrip(s) ==
    IF s = <<>> THEN s
    ELSE IF IsSpace(s[Len(s)]) THEN rstrip(SubSeq(s, 1, Len(s) - 1)) ELSE s

RECURSIVE lstrip(_)
lstrip(s) ==
    IF s = <<>> THEN s
    ELSE IF IsSpace(s[1]) THEN lstrip(SubSeq(s, 2, Len(s))) ELSE s

strip(s) == rstrip(lstrip(s))

\* s.endswith(tuple of suffixes)
endswith(s, sufs) ==
    \E suf \in sufs :
        /\ Len(suf) <= Len(s)
        /\ SubSeq(s, Len(s) - Len(suf) + 1, Len(s)) = suf

\* a < b for two str values: by code point, a proper prefix is smaller
LexLess(a, b) ==
    \E i \in 1..Len(b) :
        /\ i - 1 <= Len(a)
        /\ \A j \in 1..(i - 1) : a[j] = b[j]
        /\ IF i > Len(a) THEN TRUE ELSE Ord(a[i]) < Ord(b[i])

\* sorted with the largest first
RECURSIVE sorted_reverse(_)
sorted_reverse(S) ==
    IF S = {} THEN <<>>
    ELSE LET m == CHOOSE x \in S : \A y \in S \ {x} : LexLess(y, x)
         IN <<m>> \o sorted_reverse(S \ {m})

\* sorted(S) of a set of str
RECURSIVE sorted(_)
sorted(S) ==
    IF S = {} THEN <<>>
    ELSE LET m == CHOOSE x \in S : \A y \in S \ {x} : LexLess(x, y)
         IN <<m>> \o sorted(S \ {m})

\* sep.join(list of str)
RECURSIVE join(_, _)
join(sep, l) ==
    IF l = <<>> THEN <<>>
    ELSE IF Len(l) = 1 THEN l[1]
    ELSE l[1] \o sep \o join(sep, Tail(l))

CommaSpace == <<",", " ">>

\* ------------------------------------------------------------ configuration
OUTPUT_FILE_PATH == <<"/", "w", "/", "N", ".", "x">>

\* os.path.splitext: split at the last dot of the last path component
\* (a component's leading dots never start an extension)
RECURSIVE LastIndex(_, _)
LastIndex(s, c) ==
    IF s = <<>> THEN 0
    ELSE IF s[Len(s)] = c THEN Len(s) ELSE LastIndex(SubSeq(s, 1, Len(s) - 1), c)

splitext(p) ==
    LET slash == LastIndex(p, "/")
        dot == LastIndex(p, ".")
        hasExt == /\ dot > slash + 1
                  /\ \E k \in (slash + 1)..(dot - 1) : p[k] # "."
    IN IF hasExt
       THEN [base |-> SubSeq(p, 1, dot - 1), ext |-> SubSeq(p, dot, Len(p))]
       ELSE [base |-> p, ext |-> <<>>]

\* save_path without the temporary name
save_path_same(output_file, is_final) == output_file

\* the path save_workbook writes
save_path(output_file, is_final) ==
    IF is_final THEN output_file
    ELSE splitext(output_file).base \o <<"_", "t", "e", "m", "p">> \o splitext(output_file).ext

\* ------------------------------------------------------------------- state
VARIABLES
    service,              \* what the remote service can answer with:
                          \* [ids, codes, max_details, max_repl]
    SAVE_INTERVAL,        \* rows between two periodic saves
    source,               \* the rows of the input file
    sheet,                \* self.sheet: row -> [c4, c6]
    total_rows,           \* self.total_rows
    pc,                   \* position in process_file
    row_idx,              \* the loop variable
    article,              \* locals of the loop body
    current_description,
    details,
    d_idx,                \* position of the inner loop in details
    all_cross_numbers,
    cross_numbers_text,
    processed_rows,       \* self.processed_rows
    success_count,        \* self.success_count
    error_count,          \* self.error_count
    no_data_count,        \* self.no_data_count
    result,               \* what process_file returned
    calls,                \* the remote calls and delays of the current row
    returned,             \* the distinct formattedoem values they returned,
                          \* in the order they first came
    repeated,             \* whether one of them was returned more than once
    outcome,              \* row -> how the row ended
    raised,               \* the rows whose processing raised
    saves,                \* the calls of workbook.save, in order
    first                 \* what an earlier run over the source left, if any

vars == <<service, SAVE_INTERVAL, source, sheet, total_rows, pc, row_idx, article,
          current_description, details, d_idx, all_cross_numbers,
          cross_numbers_text, processed_rows, success_count, error_count,
          no_data_count, result, calls, returned, repeated, outcome, raised,
          saves, first>>

SeqsUpTo(S, n) == UNION {[1..k -> S] : k \in 0..n}

Header == [c4 |-> StrVal(<<"N">>), c6 |-> StrVal(<<"N">>)]

\* the sheets of n rows whose data rows take their cells from codes and descs
Sheets(n, codes, descs) ==
    {sh \in [1..n -> [c4 : codes \cup {Header.c4}, c6 : descs \cup {Header.c6}]] :
        /\ sh[1] = Header
        /\ \A r \in 2..n : sh[r].c4 \in codes /\ sh[r].c6 \in descs}

\* ExcelProcessor.__init__ and the module constants
InitWith(src, svc, interval) ==
    /\ first = <<>>
    /\ source = src
    /\ service = svc
    /\ SAVE_INTERVAL = interval
    /\ sheet = <<>>
    /\ total_rows = 0
    /\ pc = "load"
    /\ row_idx = 0
    /\ article = None
    /\ current_description = None
    /\ details = <<>>
    /\ d_idx = 0
    /\ all_cross_numbers = {}
    /\ cross_numbers_text = <<>>
    /\ processed_rows = 0
    /\ success_count = 0
    /\ error_count = 0
    /\ no_data_count = 0
    /\ result = "unset"
    /\ calls = <<>>
    /\ returned = <<>>
    /\ repeated = FALSE
    /\ outcome = <<>>
    /\ raised = {}
    /\ saves = <<>>

\* --------------------------------------------------------------- LaximoAPI
\* A response is [kind, body]: kind "ok" carries the parsed elements, kind
\* "transport" is a RequestException raised by session.get, kind "status" the
\* HTTPError raise_for_status raises on a non-success status, and kind "parse"
\* an ET.ParseError; only an "ok" response has a body to parse.
Responses(bodies) ==
    {[kind |-> "ok", body |-> b] : b \in bodies}
        \cup {[kind |-> k, body |-> <<>>] : k \in {"transport", "status", "parse"}}

\* find_oem answering a failure with a record without detailid
find_oem_unparsed(resp) ==
    IF resp.kind = "ok" THEN resp.body ELSE <<[detailid |-> None]>>

find_oem(resp) ==
    IF resp.kind = "ok" THEN resp.body ELSE <<>>

find_replacements(resp) ==
    IF resp.kind = "ok" THEN resp.body ELSE <<>>

OemBodies == SeqsUpTo([detailid : service.ids], service.max_details)

ReplBodies == SeqsUpTo([formattedoem : service.codes], service.max_repl)

\* what the log keeps of a call
Call(op, arg, kind, ret) ==
    [op |-> op, arg |-> arg, kind |-> kind, empty |-> ret = <<>>]

\* ---------------------------------------------------------- ExcelProcessor
\* the for statement moves to the next row, or leaves the loop
NextRow ==
    /\ row_idx' = row_idx + 1
    /\ pc' = IF row_idx + 1 > total_rows THEN "final" ELSE "extract"

\* Saved with the workbook as it was before the row
Saved_stale(is_final, ok, rows) ==
    Append(saves, [is_final |-> is_final,
                   path |-> save_path(OUTPUT_FILE_PATH, is_final),
                   ok |-> ok,
                   row |-> row_idx,
                   processed |-> rows,
                   snapshot |-> sheet,
                   handled |-> {r \in 2..total_rows : outcome'[r] # "pending"}])

\* workbook.save(save_path) inside save_workbook; ok is whether it returned;
\* snapshot is the workbook it writes, handled the rows that had ended
Saved(is_final, ok, rows) ==
    Append(saves, [is_final |-> is_final,
                   path |-> save_path(OUTPUT_FILE_PATH, is_final),
                   ok |-> ok,
                   row |-> row_idx,
                   processed |-> rows,
                   snapshot |-> sheet',
                   handled |-> {r \in 2..total_rows : outcome'[r] # "pending"}])

\* Continue without the count
Continue_uncounted ==
    /\ no_data_count' = no_data_count
    /\ outcome' = [outcome EXCEPT ![row_idx] = "no_data"]
    /\ NextRow
    /\ UNCHANGED <<processed_rows, success_count, error_count, saves, raised>>

\* a continue statement: the row is counted no_data and nothing after the
\* try statement runs
Continue ==
    /\ no_data_count' = no_data_count + 1
    /\ outcome' = [outcome EXCEPT ![row_idx] = "no_data"]
    /\ NextRow
    /\ UNCHANGED <<processed_rows, success_count, error_count, saves, raised>>

\* AfterTry with the periodic save keyed on the row's position
AfterTry_byrow ==
    /\ processed_rows' = processed_rows + 1
    /\ IF (row_idx - 1) % SAVE_INTERVAL = 0
       THEN \E ok \in BOOLEAN : saves' = Saved(FALSE, ok, processed_rows + 1)
       ELSE saves' = saves
    /\ NextRow

\* the statements after the try statement: count the row, save periodically
AfterTry ==
    /\ processed_rows' = processed_rows + 1
    /\ IF (processed_rows + 1) % SAVE_INTERVAL = 0
       THEN \E ok \in BOOLEAN : saves' = Saved(FALSE, ok, processed_rows + 1)
       ELSE saves' = saves
    /\ NextRow

\* Except with the exception ending the loop instead of the row
Except_break ==
    /\ error_count' = error_count + 1
    /\ outcome' = [outcome EXCEPT ![row_idx] = "error"]
    /\ raised' = raised \cup {row_idx}
    /\ processed_rows' = processed_rows + 1
    /\ saves' = saves
    /\ row_idx' = row_idx
    /\ pc' = "final"
    /\ UNCHANGED <<success_count, no_data_count>>

\* the except clause
Except ==
    /\ error_count' = error_count + 1
    /\ outcome' = [outcome EXCEPT ![row_idx] = "error"]
    /\ raised' = raised \cup {row_idx}
    /\ AfterTry
    /\ UNCHANGED <<success_count, no_data_count>>

\* LoadOk with the loop starting at row 1
LoadOk_fromheader ==
    /\ pc = "load"
    /\ sheet' = source
    /\ total_rows' = Len(source)
    /\ outcome' = [r \in 1..Len(source) |-> IF r = 1 THEN "header" ELSE "pending"]
    /\ row_idx' = 1
    /\ pc' = IF 1 > Len(source) THEN "final" ELSE "extract"
    /\ UNCHANGED <<first, service, SAVE_INTERVAL, source, article, current_description,
                   details, d_idx, all_cross_numbers, cross_numbers_text,
                   processed_rows, success_count, error_count, no_data_count,
                   result, calls, returned, repeated, raised, saves>>

\* load_workbook succeeded; the loop starts at row 2
LoadOk ==
    /\ pc = "load"
    /\ sheet' = source
    /\ total_rows' = Len(source)
    /\ outcome' = [r \in 1..Len(source) |-> IF r = 1 THEN "header" ELSE "pending"]
    /\ row_idx' = 2
    /\ pc' = IF 2 > Len(source) THEN "final" ELSE "extract"
    /\ UNCHANGED <<first, service, SAVE_INTERVAL, source, article, current_description,
                   details, d_idx, all_cross_numbers, cross_numbers_text,
                   processed_rows, success_count, error_count, no_data_count,
                   result, calls, returned, repeated, raised, saves>>

\* LoadFail with the return value of load_workbook ignored
LoadFail_ignored ==
    /\ pc = "load"
    /\ result' = result
    /\ pc' = "final"
    /\ UNCHANGED <<first, service, SAVE_INTERVAL, source, sheet, total_rows, row_idx,
                   article, current_description, details, d_idx,
                   all_cross_numbers, cross_numbers_text, processed_rows,
                   success_count, error_count, no_data_count, calls, returned,
                   repeated, outcome, raised, saves>>

\* load_workbook caught an exception: process_file returns False
LoadFail ==
    /\ pc = "load"
    /\ result' = "False"
    /\ pc' = "done"
    /\ UNCHANGED <<first, service, SAVE_INTERVAL, source, sheet, total_rows, row_idx,
                   article, current_description, details, d_idx,
                   all_cross_numbers, cross_numbers_text, processed_rows,
                   success_count, error_count, no_data_count, calls, returned,
                   repeated, outcome, raised, saves>>

\* Extract with "if article is None" as the test
Extract_isnone ==
    /\ pc = "extract"
    /\ calls' = <<>>
    /\ returned' = <<>>
    /\ repeated' = FALSE
    /\ IF sheet[row_idx].c4 = None
       THEN /\ article' = sheet[row_idx].c4
            /\ Continue
            /\ UNCHANGED current_description
       ELSE /\ article' = StrVal(strip(PyStr(sheet[row_idx].c4)))
            /\ current_description' = OrEmpty(sheet[row_idx].c6)
            /\ pc' = "resolve"
            /\ UNCHANGED <<row_idx, processed_rows, success_count, error_count,
                           no_data_count, outcome, raised, saves>>
    /\ UNCHANGED <<first, service, SAVE_INTERVAL, source, sheet, total_rows, details,
                   d_idx, all_cross_numbers, cross_numbers_text, result>>

\* read the article; an empty one ends the row
Extract ==
    /\ pc = "extract"
    /\ calls' = <<>>
    /\ returned' = <<>>
    /\ repeated' = FALSE
    /\ IF ~Truthy(sheet[row_idx].c4)
       THEN /\ article' = sheet[row_idx].c4
            /\ Continue
            /\ UNCHANGED current_description
       ELSE /\ article' = StrVal(strip(PyStr(sheet[row_idx].c4)))
            /\ current_description' = OrEmpty(sheet[row_idx].c6)
            /\ pc' = "resolve"
            /\ UNCHANGED <<row_idx, processed_rows, success_count, error_count,
                           no_data_count, outcome, raised, saves>>
    /\ UNCHANGED <<first, service, SAVE_INTERVAL, source, sheet, total_rows, details,
                   d_idx, all_cross_numbers, cross_numbers_text, result>>

\* details = laximo_api.find_oem(article); none ends the row
Resolve ==
    /\ pc = "resolve"
    /\ \E resp \in Responses(OemBodies) :
        /\ details' = find_oem(resp)
        /\ calls' = Append(calls, Call("find_oem", article, resp.kind, find_oem(resp)))
        /\ IF find_oem(resp) = <<>>
           THEN /\ Continue
                /\ UNCHANGED <<d_idx, all_cross_numbers>>
           ELSE /\ all_cross_numbers' = {}
                /\ d_idx' = 1
                /\ pc' = "fanout"
                /\ UNCHANGED <<row_idx, processed_rows, success_count,
                               error_count, no_data_count, outcome, raised, saves>>
    /\ UNCHANGED <<first, service, SAVE_INTERVAL, source, sheet, total_rows, article,
                   current_description, cross_numbers_text, result, returned,
                   repeated>>

\* Collected with the loop left after the first replacement
Collected_first(replacements) ==
    IF replacements = <<>> \/ ~Truthy(replacements[1].formattedoem) THEN {}
    ELSE {replacements[1].formattedoem.s}

\* the formattedoem values of a list of replacements that pass "if formatted_oem"
Collected(replacements) ==
    {replacements[i].formattedoem.s : i \in
        {j \in 1..Len(replacements) : Truthy(replacements[j].formattedoem)}}

Range(l) == {l[i] : i \in DOMAIN l}

\* seen, then the formattedoem values of replacements not seen before
RECURSIVE Arrived(_, _)
Arrived(seen, replacements) ==
    IF replacements = <<>> THEN seen
    ELSE LET v == replacements[1].formattedoem
         IN Arrived(IF v \in Range(seen) THEN seen ELSE Append(seen, v),
                    Tail(replacements))

\* FanOut without the delay
FanOut_nodelay ==
    /\ pc = "fanout"
    /\ d_idx <= Len(details)
    /\ LET detail_id == details[d_idx].detailid IN
        IF ~Truthy(detail_id)
        THEN UNCHANGED <<calls, all_cross_numbers, returned, repeated>>
        ELSE \E resp \in Responses(ReplBodies) :
            LET replacements == find_replacements(resp) IN
            /\ calls' = Append(calls, Call("find_replacements", detail_id,
                                            resp.kind, replacements))
            /\ all_cross_numbers' = all_cross_numbers \cup Collected(replacements)
            /\ returned' = Arrived(returned, replacements)
            /\ repeated' =
                   \/ repeated
                   \/ \E i \in 1..Len(replacements) :
                        /\ Truthy(replacements[i].formattedoem)
                        /\ \/ replacements[i].formattedoem \in Range(returned)
                           \/ \E j \in 1..(i - 1) : replacements[j] = replacements[i]
    /\ d_idx' = d_idx + 1
    /\ pc' = IF d_idx + 1 > Len(details) THEN "merge" ELSE "fanout"
    /\ UNCHANGED <<first, service, SAVE_INTERVAL, source, sheet, total_rows, row_idx,
                   article, current_description, details, cross_numbers_text,
                   processed_rows, success_count, error_count, no_data_count,
                   result, outcome, raised, saves>>

\* one pass of "for detail in details"
FanOut ==
    /\ pc = "fanout"
    /\ d_idx <= Len(details)
    /\ LET detail_id == details[d_idx].detailid IN
        IF ~Truthy(detail_id)
        THEN UNCHANGED <<calls, all_cross_numbers, returned, repeated>>
        ELSE \E resp \in Responses(ReplBodies) :
            LET replacements == find_replacements(resp) IN
            /\ calls' = calls \o <<Call("sleep", None, "ok", <<>>),
                                   Call("find_replacements", detail_id, resp.kind,
                                        replacements)>>
            /\ all_cross_numbers' = all_cross_numbers \cup Collected(replacements)
            /\ returned' = Arrived(returned, replacements)
            /\ repeated' =
                   \/ repeated
                   \/ \E i \in 1..Len(replacements) :
                        /\ Truthy(replacements[i].formattedoem)
                        /\ \/ replacements[i].formattedoem \in Range(returned)
                           \/ \E j \in 1..(i - 1) : replacements[j] = replacements[i]
    /\ d_idx' = d_idx + 1
    /\ pc' = IF d_idx + 1 > Len(details) THEN "merge" ELSE "fanout"
    /\ UNCHANGED <<first, service, SAVE_INTERVAL, source, sheet, total_rows, row_idx,
                   article, current_description, details, cross_numbers_text,
                   processed_rows, success_count, error_count, no_data_count,
                   result, outcome, raised, saves>>

\* ", ".join(sorted(all_cross_numbers))
render(acn) == join(CommaSpace, sorted(acn))

\* new_description that leaves a description already ending with the text
new_description_once(cd, text) ==
    IF cd # <<>> /\ endswith(cd, {text}) THEN cd
    ELSE IF cd # <<>>
    THEN (IF ~endswith(rstrip(cd), {<<",">>, <<" ">>}) THEN cd \o CommaSpace ELSE cd)
             \o text
    ELSE text

\* new_description with the separator always added
new_description_always(cd, text) ==
    IF cd # <<>> THEN cd \o CommaSpace \o text ELSE text

\* the value written for a str description cd and the rendered text
new_description(cd, text) ==
    IF cd # <<>>
    THEN (IF ~endswith(rstrip(cd), {<<",">>, <<" ">>}) THEN cd \o CommaSpace ELSE cd)
             \o text
    ELSE text

\* a description that is not a str has no rstrip
MergeRaises(cd) == Truthy(cd) /\ cd.t # "str"

\* MergeWrite with the rendered text written before the merge is computed
MergeWrite_early ==
    /\ pc = "merge"
    /\ IF all_cross_numbers = {}
       THEN /\ Continue
            /\ UNCHANGED <<sheet, cross_numbers_text>>
       ELSE /\ cross_numbers_text' = render(all_cross_numbers)
            /\ IF MergeRaises(current_description)
               THEN /\ sheet' = [sheet EXCEPT ![row_idx].c6 =
                           StrVal(render(all_cross_numbers))]
                    /\ Except
               ELSE /\ sheet' = [sheet EXCEPT ![row_idx].c6 =
                           StrVal(new_description(current_description.s,
                                                  render(all_cross_numbers)))]
                    /\ success_count' = success_count + 1
                    /\ outcome' = [outcome EXCEPT ![row_idx] = "success"]
                    /\ AfterTry
                    /\ UNCHANGED <<error_count, no_data_count, raised>>
    /\ UNCHANGED <<first, service, SAVE_INTERVAL, source, total_rows, article,
                   current_description, details, d_idx, all_cross_numbers,
                   result, calls, returned, repeated>>

\* after the inner loop: no cross numbers ends the row, otherwise the merged
\* description is written and the row counted
MergeWrite ==
    /\ pc = "merge"
    /\ IF all_cross_numbers = {}
       THEN /\ Continue
            /\ UNCHANGED <<sheet, cross_numbers_text>>
       ELSE /\ cross_numbers_text' = render(all_cross_numbers)
            /\ IF MergeRaises(current_description)
               THEN /\ UNCHANGED sheet
                    /\ Except
               ELSE /\ sheet' = [sheet EXCEPT ![row_idx].c6 =
                           StrVal(new_description(current_description.s,
                                                  render(all_cross_numbers)))]
                    /\ success_count' = success_count + 1
                    /\ outcome' = [outcome EXCEPT ![row_idx] = "success"]
                    /\ AfterTry
                    /\ UNCHANGED <<error_count, no_data_count, raised>>
    /\ UNCHANGED <<first, service, SAVE_INTERVAL, source, total_rows, article,
                   current_description, details, d_idx, all_cross_numbers,
                   result, calls, returned, repeated>>

\* any other exception raised inside the try statement, in whatever phase
RowRaises ==
    /\ pc \in {"extract", "resolve", "fanout", "merge"}
    /\ calls' = IF pc = "extract" THEN <<>> ELSE calls
    /\ returned' = IF pc = "extract" THEN <<>> ELSE returned
    /\ repeated' = IF pc = "extract" THEN FALSE ELSE repeated
    /\ UNCHANGED <<first, service, SAVE_INTERVAL, source, sheet, total_rows,
                   article, current_description, details, d_idx,
                   all_cross_numbers, cross_numbers_text, result>>
    /\ Except

\* FinalSave with the return value also asking for no row in error and no
\* failed periodic save
FinalSave_strict ==
    /\ pc = "final"
    /\ UNCHANGED <<first, service, SAVE_INTERVAL, source, sheet, total_rows,
                   row_idx, article, current_description, details, d_idx,
                   all_cross_numbers, cross_numbers_text, processed_rows,
                   success_count, error_count, no_data_count, calls, returned,
                   repeated, outcome, raised>>
    /\ \E ok \in BOOLEAN :
        /\ saves' = Saved(TRUE, ok, processed_rows)
        /\ result' = IF ok /\ error_count = 0 /\ \A i \in DOMAIN saves : saves[i].ok
                     THEN "True" ELSE "False"
    /\ pc' = "done"

\* the final save and the return
FinalSave ==
    /\ pc = "final"
    /\ UNCHANGED <<first, service, SAVE_INTERVAL, source, sheet, total_rows,
                   row_idx, article, current_description, details, d_idx,
                   all_cross_numbers, cross_numbers_text, processed_rows,
                   success_count, error_count, no_data_count, calls, returned,
                   repeated, outcome, raised>>
    /\ \E ok \in BOOLEAN :
        /\ saves' = Saved(TRUE, ok, processed_rows)
        /\ result' = IF ok THEN "True" ELSE "False"
    /\ pc' = "done"

Next ==
    \/ LoadOk
    \/ LoadFail
    \/ Extract
    \/ Resolve
    \/ FanOut
    \/ MergeWrite
    \/ RowRaises
    \/ FinalSave

\* main run again with the file the final save wrote as its input: a new
\* ExcelProcessor over that file; first keeps what the run before read,
\* wrote and rendered
Rerun ==
    /\ pc = "done"
    /\ first = <<>>
    /\ result = "True"
    /\ first' = [source |-> source, sheet |-> sheet, outcome |-> outcome,
                 text |-> cross_numbers_text]
    /\ source' = saves[Len(saves)].snapshot
    /\ sheet' = <<>>
    /\ total_rows' = 0
    /\ pc' = "load"
    /\ row_idx' = 0
    /\ article' = None
    /\ current_description' = None
    /\ details' = <<>>
    /\ d_idx' = 0
    /\ all_cross_numbers' = {}
    /\ cross_numbers_text' = <<>>
    /\ processed_rows' = 0
    /\ success_count' = 0
    /\ error_count' = 0
    /\ no_data_count' = 0
    /\ result' = "unset"
    /\ calls' = <<>>
    /\ returned' = <<>>
    /\ repeated' = FALSE
    /\ outcome' = <<>>
    /\ raised' = {}
    /\ saves' = <<>>
    /\ UNCHANGED <<service, SAVE_INTERVAL>>

NextRerun ==
    \/ Next
    \/ Rerun

\* --------------------------------------------------------- specifications
\* whole runs over small sheets and a one-code catalogue
CodeCells == {None, StrVal(<<" ">>), StrVal(<<"P">>)}

DescCells == {None, StrVal(<<"A">>)}

SmallService ==
    [ids |-> {StrVal(<<"d", "1">>), None}, codes |-> {StrVal(<<"C">>)},
     max_details |-> 1, max_repl |-> 1]

Init ==
    \E n \in 1..MaxRow, interval \in 1..MaxInterval :
        \E src \in Sheets(n, CodeCells, DescCells) :
            InitWith(src, SmallService, interval)

Spec == Init /\ [][Next]_vars

\* one data row, every kind of cell, and a service of several ids and codes
RowDescCells ==
    {None, StrVal(<<>>), IntVal(7), StrVal(<<" ">>), StrVal(<<"A">>),
     StrVal(<<"A", ",">>), StrVal(<<"A", " ">>), StrVal(<<"A", ",", " ">>),
     StrVal(<<"A", ",", " ", "B">>)}

\* the cells of the data row: every empty article, one article with every
\* description, and the other articles with one description
RowCells ==
    {[c4 |-> c, c6 |-> StrVal(<<"A">>)] : c \in {None, StrVal(<<>>), IntVal(0)}}
        \cup {[c4 |-> StrVal(<<" ", "P", " ">>), c6 |-> d] : d \in RowDescCells}
        \cup {[c4 |-> c, c6 |-> StrVal(<<"A">>)] : c \in {IntVal(7), StrVal(<<" ">>)}}

RowIds == {StrVal(<<"d", "1">>), StrVal(<<"d", "2">>), None}

Catalogues ==
    {{StrVal(<<"C">>), None, StrVal(<<>>)},
     {StrVal(<<"C">>), StrVal(<<"D">>)},
     {StrVal(<<"X", "1">>), StrVal(<<"X", "2">>), StrVal(<<"X", "3">>)}}

InitRow ==
    \E codes \in Catalogues, cells \in RowCells :
        InitWith(<<Header, cells>>,
                 [ids |-> RowIds, codes |-> codes,
                  max_details |-> MaxDetails, max_repl |-> MaxRepl],
                 MaxInterval)

SpecRow == InitRow /\ [][Next]_vars

\* three data rows with the descriptions "A, B", "A," and "", and a service
\* that knows the codes C and D
ShapeSheet ==
    <<Header,
      [c4 |-> StrVal(<<"P">>), c6 |-> StrVal(<<"A", ",", " ", "B">>)],
      [c4 |-> StrVal(<<"P">>), c6 |-> StrVal(<<"A", ",">>)],
      [c4 |-> StrVal(<<"P">>), c6 |-> StrVal(<<>>)]>>

InitShape ==
    InitWith(ShapeSheet,
             [ids |-> {StrVal(<<"d", "1">>)},
              codes |-> {StrVal(<<"C">>), StrVal(<<"D">>)},
              max_details |-> 1, max_repl |-> MaxRepl],
             MaxInterval)

SpecShape == InitShape /\ [][Next]_vars

\* one data row, run a first time and then again over its own output
RerunDescCells == {None, StrVal(<<"A">>), StrVal(<<"A", ",">>)}

InitRerun ==
    \E d \in RerunDescCells :
        InitWith(<<Header, [c4 |-> StrVal(<<"P">>), c6 |-> d]>>,
                 [ids |-> {StrVal(<<"d", "1">>)},
                  codes |-> {StrVal(<<"C">>), StrVal(<<"D">>)},
                  max_details |-> 1, max_repl |-> MaxRepl],
                 MaxInterval)

SpecRerun == InitRerun /\ [][NextRerun]_vars

\* ------------------------------------------------------------- properties
Loaded == total_rows >= 1

DataRows == 2..total_rows

\* the data rows whose handling has ended
Handled == {r \in DataRows : outcome[r] # "pending"}

RowsWith(o) == {r \in DataRows : outcome[r] = o}

\* between two rows, or after the last one
AtBoundary == Loaded /\ pc \in {"extract", "final", "done"}

CheckpointPath == save_path(OUTPUT_FILE_PATH, FALSE)

FinalSaves == {i \in DOMAIN saves : saves[i].path = OUTPUT_FILE_PATH}

\* C1: failure isolation. When the run has ended, every row that raised is
\* counted under error (error_count is the number of such rows), every row
\* after it has been attempted and has exactly one outcome, and the run ended
\* with the save to the canonical output path.
C1_FailureIsolation ==
    (pc = "done" /\ Loaded) =>
        /\ \A k \in raised :
            /\ outcome[k] = "error"
            /\ \A j \in (k + 1)..total_rows :
                outcome[j] \in {"success", "no_data", "error"}
        /\ error_count = Cardinality(raised)
        /\ success_count + no_data_count + error_count = Cardinality(DataRows)
        /\ saves # <<>>
        /\ saves[Len(saves)].is_final
        /\ saves[Len(saves)].path = OUTPUT_FILE_PATH

C1_Witness ==
    /\ pc = "done"
    /\ \E k \in raised : k < total_rows /\ outcome[k + 1] = "success"
    /\ saves[Len(saves)].path = OUTPUT_FILE_PATH

\* C2: checkpoint cadence, every attempted row counting. Between two rows,
\* for every multiple m * SAVE_INTERVAL of rows handled so far, a non-final
\* save to the checkpoint path was made right after data row number
\* m * SAVE_INTERVAL (sheet row m * SAVE_INTERVAL + 1).
C2_CheckpointCadence ==
    AtBoundary =>
        \A m \in 1..MaxRow :
            m * SAVE_INTERVAL <= Cardinality(Handled) =>
                \E i \in DOMAIN saves :
                    /\ ~saves[i].is_final
                    /\ saves[i].path = CheckpointPath
                    /\ saves[i].row = m * SAVE_INTERVAL + 1

\* C3: the canonical output path is saved to exactly once per run whose source
\* loaded, after the last data row was handled; a save is to the canonical
\* path only if it is the final one, so none happens while rows remain.
C3_CanonicalOnce ==
    /\ \A i \in DOMAIN saves :
        /\ saves[i].is_final <=> saves[i].path = OUTPUT_FILE_PATH
        /\ ~saves[i].is_final => saves[i].path = CheckpointPath
        /\ CheckpointPath # OUTPUT_FILE_PATH
    /\ pc # "done" => FinalSaves = {}
    /\ (pc = "done" /\ Loaded) =>
        /\ FinalSaves = {Len(saves)}
        /\ Handled = DataRows

C3_Witness ==
    /\ pc = "done"
    /\ Len(saves) >= 2
    /\ ~saves[1].is_final
    /\ saves[1].path = <<"/", "w", "/", "N", "_", "t", "e", "m", "p", ".", "x">>
    /\ FinalSaves = {Len(saves)}

\* C10: every data row lands in exactly one outcome. In every state of a run
\* whose source loaded, each counter is the number of rows that ended with its
\* outcome, their sum is the number of rows handled so far, the rows handled
\* are the rows before row_idx, and once the loop has ended the sum is the
\* number of data rows.
C10_ExactlyOneOutcome ==
    Loaded =>
        /\ success_count = Cardinality(RowsWith("success"))
        /\ no_data_count = Cardinality(RowsWith("no_data"))
        /\ error_count = Cardinality(RowsWith("error"))
        /\ success_count + no_data_count + error_count = Cardinality(Handled)
        /\ Handled = 2..(row_idx - 1)
        /\ pc \in {"final", "done"} =>
            success_count + no_data_count + error_count = total_rows - 1

C10_Witness ==
    /\ pc = "done"
    /\ total_rows = 3
    /\ success_count + no_data_count + error_count = 2
    /\ success_count = 1
    /\ no_data_count = 1

\* the row handled last, between two rows or after the last one
Last == row_idx - 1

LastEnded(o) == AtBoundary /\ row_idx > 2 /\ outcome[Last] = o

\* the description the row had in the source, as the str the merge reads
Existing(r) == OrEmpty(source[r].c6).s

\* the non-empty codes the replacement calls of the row returned
ReturnedCodes == {v.s : v \in {w \in Range(returned) : Truthy(w)}}

\* text cut at every ", "
RECURSIVE Pieces(_)
Pieces(text) ==
    LET cuts == {i \in 1..(Len(text) - 1) : text[i] = "," /\ text[i + 1] = " "}
    IN IF cuts = {} THEN <<text>>
       ELSE LET i == CHOOSE c \in cuts : \A d \in cuts : c <= d
            IN <<SubSeq(text, 1, i - 1)>> \o Pieces(SubSeq(text, i + 2, Len(text)))

C5_NoCallWithoutCode ==
    /\ \A i \in DOMAIN calls :
        calls[i].op = "find_oem" =>
            /\ calls[i].arg.t = "str"
            /\ calls[i].arg.s # <<>>
            /\ strip(calls[i].arg.s) = calls[i].arg.s
    /\ (AtBoundary /\ row_idx > 2 /\ ~Truthy(source[Last].c4) /\ Last \notin raised) =>
        /\ calls = <<>>
        /\ outcome[Last] = "no_data"

\* C6: merge separator rule. The value written for a row is the existing
\* description, then ", " unless that description ends in whitespace or in a
\* comma, then the rendered text; with an empty description it is the
\* rendered text alone.
C6_MergeSeparatorRule ==
    LastEnded("success") =>
        LET d == Existing(Last)
            text == cross_numbers_text
        IN sheet[Last].c6.s =
            IF d = <<>> THEN text
            ELSE IF IsSpace(d[Len(d)]) \/ d[Len(d)] = "," THEN d \o text
            ELSE d \o <<",", " ">> \o text

\* C7: append shape. "A, B" merged with {C, D} is written "A, B, C, D"; "A,"
\* merged with {C} is written "A,C"; an empty description merged with {C, D}
\* is written "C, D".
C7_AppendShape ==
    LastEnded("success") =>
        /\ (Existing(Last) = <<"A", ",", " ", "B">> /\ all_cross_numbers = {<<"C">>, <<"D">>})
            => sheet[Last].c6.s = <<"A", ",", " ", "B", ",", " ", "C", ",", " ", "D">>
        /\ (Existing(Last) = <<"A", ",">> /\ all_cross_numbers = {<<"C">>})
            => sheet[Last].c6.s = <<"A", ",", "C">>
        /\ (Existing(Last) = <<>> /\ all_cross_numbers = {<<"C">>, <<"D">>})
            => sheet[Last].c6.s = <<"C", ",", " ", "D">>

C7_Witness ==
    /\ pc = "done"
    /\ total_rows = 4
    /\ sheet[2].c6.s = <<"A", ",", " ", "B", ",", " ", "C", ",", " ", "D">>
    /\ sheet[3].c6.s = <<"A", ",", "C">>
    /\ sheet[4].c6.s = <<"C", ",", " ", "D">>

\* C8: dedup across the fan-out. For a row that did not raise, the rendered
\* text lists exactly the non-empty codes its find_replacements calls
\* returned, each once, and the written value ends with it; a row with at
\* least one such code is a success; with the codes X1, X2, X3 and an empty
\* description the written value is "X1, X2, X3".
C8_DedupAcrossFanOut ==
    (AtBoundary /\ row_idx > 2 /\ Last \notin raised) =>
        /\ ReturnedCodes # {} <=> outcome[Last] = "success"
        /\ outcome[Last] = "success" =>
            LET l == Pieces(cross_numbers_text)
                written == sheet[Last].c6.s
            IN /\ Range(l) = ReturnedCodes
               /\ Len(l) = Cardinality(ReturnedCodes)
               /\ Len(written) >= Len(cross_numbers_text)
               /\ SubSeq(written, Len(written) - Len(cross_numbers_text) + 1,
                         Len(written)) = cross_numbers_text
               /\ (ReturnedCodes = {<<"X", "1">>, <<"X", "2">>, <<"X", "3">>}
                      /\ Existing(Last) = <<>>)
                    => written = <<"X", "1", ",", " ", "X", "2", ",", " ", "X", "3">>

C8_Witness ==
    /\ LastEnded("success")
    /\ repeated
    /\ [i \in DOMAIN calls |-> <<calls[i].op, calls[i].arg>>] =
           <<<<"find_oem", StrVal(<<"P">>)>>,
             <<"sleep", None>>,
             <<"find_replacements", StrVal(<<"d", "1">>)>>,
             <<"sleep", None>>,
             <<"find_replacements", StrVal(<<"d", "2">>)>>>>
    /\ returned = <<StrVal(<<"X", "2">>), StrVal(<<"X", "1">>), StrVal(<<"X", "3">>)>>
    /\ Existing(Last) = <<>>
    /\ sheet[Last].c6 = StrVal(<<"X", "1", ",", " ", "X", "2", ",", " ", "X", "3">>)
    /\ success_count = 1

\* C9: ordering. The rendered text is its codes joined by ", ", in strictly
\* ascending lexicographic order, and they are the set of codes returned: the
\* text is the same whatever the order they came in.
C9_Ordering ==
    LastEnded("success") =>
        LET l == Pieces(cross_numbers_text)
        IN /\ \A i \in 1..(Len(l) - 1) : LexLess(l[i], l[i + 1])
           /\ join(<<",", " ">>, l) = cross_numbers_text
           /\ Range(l) = ReturnedCodes
           /\ ReturnedCodes = {<<"C">>, <<"D">>}
                => cross_numbers_text = <<"C", ",", " ", "D">>
           /\ ReturnedCodes = {<<"X", "1">>, <<"X", "2">>, <<"X", "3">>}
                => cross_numbers_text =
                       <<"X", "1", ",", " ", "X", "2", ",", " ", "X", "3">>

C9_Witness ==
    /\ LastEnded("success")
    /\ returned = <<StrVal(<<"X", "3">>), StrVal(<<"X", "1">>), StrVal(<<"X", "2">>)>>
    /\ cross_numbers_text = <<"X", "1", ",", " ", "X", "2", ",", " ", "X", "3">>

Failures == {"transport", "status", "parse"}

\* the find_oem and find_replacements calls of the row
RemoteCalls == {i \in DOMAIN calls : calls[i].op # "sleep"}

\* C11: error absorption. A find_oem or find_replacements call that met a
\* transport error, a non-success status or an unparseable response returned
\* the empty list; a failed find_oem ends the row as no_data in the same
\* step; and a row that did not raise and whose remote calls all failed is
\* counted no_data with its cells unchanged.
C11_ErrorAbsorption ==
    /\ \A i \in DOMAIN calls : calls[i].kind \in Failures => calls[i].empty
    /\ (calls # <<>> /\ calls[1].kind \in Failures) =>
        /\ Len(calls) = 1
        /\ LastEnded("no_data")
        /\ Last \notin raised
    /\ (AtBoundary /\ row_idx > 2 /\ Last \notin raised /\ calls # <<>>
            /\ \A i \in RemoteCalls : calls[i].kind \in Failures) =>
        /\ outcome[Last] = "no_data"
        /\ sheet[Last] = source[Last]

C11_Witness ==
    /\ LastEnded("no_data")
    /\ error_count = 0
    /\ Len(calls) = 5
    /\ calls[1].op = "find_oem" /\ calls[1].kind = "ok"
    /\ calls[3].op = "find_replacements" /\ calls[3].kind = "status"
    /\ calls[5].op = "find_replacements" /\ calls[5].kind = "parse"

\* C12: fatal source failure. When the source cannot be loaded the run ends
\* at once with result False: no row is handled, no remote call is made, no
\* counter changes and nothing is saved.
C12_FatalSourceFailure ==
    (pc # "load" /\ ~Loaded) =>
        /\ pc = "done"
        /\ result = "False"
        /\ calls = <<>>
        /\ saves = <<>>
        /\ outcome = <<>>
        /\ sheet = <<>>
        /\ processed_rows = 0
        /\ success_count = 0
        /\ error_count = 0
        /\ no_data_count = 0

C12_Witness ==
    /\ pc = "done"
    /\ total_rows = 0
    /\ Len(source) = 3
    /\ result = "False"
    /\ saves = <<>>

\* C13: fatal destination failure. After a save that failed, no further row
\* is handled: every data row after the row at which it failed is still
\* pending.
C13_FatalDestinationFailure ==
    \A i \in DOMAIN saves :
        ~saves[i].ok =>
            \A r \in DataRows : r > saves[i].row => outcome[r] = "pending"

\* the delays and find_replacements calls the records ds ask for, in order
RECURSIVE ExpectedFanOut(_)
ExpectedFanOut(ds) ==
    IF ds = <<>> THEN <<>>
    ELSE (IF Truthy(ds[1].detailid)
          THEN <<<<"sleep", None>>, <<"find_replacements", ds[1].detailid>>>>
          ELSE <<>>) \o ExpectedFanOut(Tail(ds))

\* C14: fan-out protocol. The calls of a row are find_oem(article) and then,
\* for each record visited so far that has a non-empty detailid, in the order
\* of the records, one delay followed at once by one find_replacements of
\* that detailid, and nothing else; with no record resolved the row is
\* no_data after the one call; a row that did not raise visited every record.
C14_FanOutProtocol ==
    calls # <<>> =>
        /\ calls[1].op = "find_oem"
        /\ calls[1].arg = article
        /\ calls[1].empty <=> details = <<>>
        /\ IF details = <<>>
           THEN Len(calls) = 1 /\ LastEnded("no_data")
           ELSE /\ d_idx \in 1..(Len(details) + 1)
                /\ [i \in 1..(Len(calls) - 1) |-> <<calls[i + 1].op, calls[i + 1].arg>>]
                       = ExpectedFanOut(SubSeq(details, 1, d_idx - 1))
                /\ (pc = "merge" \/ (AtBoundary /\ Last \notin raised))
                       => d_idx = Len(details) + 1

C14_Witness ==
    /\ pc = "merge"
    /\ Len(details) = 2
    /\ details[1].detailid = None
    /\ details[2].detailid = StrVal(<<"d", "2">>)
    /\ Len(calls) = 3
    /\ calls[2].op = "sleep"
    /\ calls[3].arg = StrVal(<<"d", "2">>)

\* C15: checkpoint boundary. Every save, periodic or final, wrote the
\* workbook as it stood when row k had just ended: the rows ended were
\* exactly the rows up to k, each row up to k was saved with the value it
\* keeps for the rest of the run, and each later row with its source value.
C15_CheckpointBoundary ==
    \A i \in DOMAIN saves :
        LET k == IF saves[i].is_final THEN total_rows ELSE saves[i].row
        IN /\ saves[i].handled = 2..k
           /\ Len(saves[i].snapshot) = total_rows
           /\ \A r \in 1..total_rows :
                saves[i].snapshot[r] = IF r <= k THEN sheet[r] ELSE source[r]

C15_Witness ==
    /\ pc = "done"
    /\ total_rows = 3
    /\ Len(saves) = 3
    /\ saves[1].row = 2
    /\ saves[1].snapshot[2].c6 # source[2].c6
    /\ saves[1].snapshot[3] = source[3]
    /\ sheet[3].c6 # source[3].c6

\* C16: row discipline. The loop starts at row 2 and moves one row at a time;
\* row 1 is never written nor given an outcome; a step changes the cells or
\* the outcome of the current row only, only while the row has no outcome
\* yet, ends that row, and leaves its article cell as it was.
C16_RowDiscipline ==
    [][/\ pc = "load" => row_idx' \in {row_idx, 2}
       /\ pc \in {"extract", "resolve", "fanout", "merge", "final"} =>
            /\ row_idx >= 2
            /\ row_idx' \in {row_idx, row_idx + 1}
            /\ sheet'[1] = source[1]
            /\ outcome'[1] = "header"
            /\ \A r \in 2..total_rows :
                (sheet'[r] # sheet[r] \/ outcome'[r] # outcome[r]) =>
                    /\ r = row_idx
                    /\ outcome[r] = "pending"
                    /\ outcome'[r] # "pending"
                    /\ row_idx' = row_idx + 1
                    /\ sheet'[r].c4 = sheet[r].c4]_vars

C16_Witness ==
    /\ pc = "done"
    /\ total_rows = 3
    /\ sheet[1] = Header
    /\ sheet[2].c6 = StrVal(<<"A", ",", " ", "C">>)
    /\ sheet[3].c6 = StrVal(<<"C">>)
    /\ sheet[2].c4 = source[2].c4

\* C17: a re-run appends. When a run over the output of an earlier run
\* renders for a row the same text as the earlier run did, and the row
\* succeeded both times, the value it writes is the earlier output followed
\* by ", " and the text once more, so it differs from the earlier output:
\* "A" with {C} gives "A, C" and then "A, C, C".
C17_RerunAppends ==
    (first # <<>> /\ LastEnded("success") /\ first.outcome[Last] = "success"
        /\ cross_numbers_text = first.text) =>
        LET out1 == first.sheet[Last].c6.s
            out2 == sheet[Last].c6.s
        IN /\ source[Last].c6.s = out1
           /\ out2 # out1
           /\ out2 = out1 \o <<",", " ">> \o cross_numbers_text
           /\ (first.source[Last].c6 = StrVal(<<"A">>) /\ first.text = <<"C">>) =>
                /\ out1 = <<"A", ",", " ", "C">>
                /\ out2 = <<"A", ",", " ", "C", ",", " ", "C">>

C17_Witness ==
    /\ first # <<>>
    /\ pc = "done"
    /\ Loaded
    /\ first.source[2].c6 = StrVal(<<"A">>)
    /\ first.sheet[2].c6 = StrVal(<<"A", ",", " ", "C">>)
    /\ sheet[2].c6 = StrVal(<<"A", ",", " ", "C", ",", " ", "C">>)

\* the calls of save_workbook made from inside the loop
CheckpointSaves == {i \in DOMAIN saves : ~saves[i].is_final}

C19_WriteIffSuccess ==
    Loaded =>
        \A r \in DataRows :
            /\ sheet[r].c4 = source[r].c4
            /\ (sheet[r].c6 # source[r].c6) <=> (outcome[r] = "success")
            /\ outcome[r] = "success" =>
                /\ sheet[r].c6.t = "str"
                /\ sheet[r].c6.s # <<>>
                /\ (r = Last) => /\ cross_numbers_text # <<>>
                                 /\ endswith(sheet[r].c6.s, {cross_numbers_text})
            /\ outcome[r] \in {"no_data", "error", "pending"} =>
                sheet[r].c6 = source[r].c6

C19_Witness ==
    /\ LastEnded("error")
    /\ Last \in raised
    /\ all_cross_numbers # {}
    /\ \E i \in RemoteCalls : calls[i].op = "find_replacements" /\ calls[i].kind = "ok"
    /\ MergeRaises(source[Last].c6)
    /\ sheet[Last].c6 = source[Last].c6

\* C20: the return value. process_file has returned exactly when the run is
\* over, and it returned True exactly when the source loaded and the last
\* save, the one to OUTPUT_FILE_PATH, succeeded; rows in error, rows without
\* data and failed periodic saves do not change it.
C20_ReturnStatus ==
    /\ (pc = "done") <=> (result \in {"True", "False"})
    /\ (pc # "done") <=> (result = "unset")
    /\ pc = "done" =>
        ((result = "True") <=>
            /\ Loaded
            /\ saves # <<>>
            /\ saves[Len(saves)].is_final
            /\ saves[Len(saves)].path = OUTPUT_FILE_PATH
            /\ saves[Len(saves)].ok)
    /\ (pc = "done" /\ ~Loaded) => saves = <<>>

C20_Witness ==
    /\ pc = "done"
    /\ result = "True"
    /\ error_count >= 1
    /\ no_data_count >= 1
    /\ \E i \in CheckpointSaves : ~saves[i].ok
====
